---- MODULE Spec2Model ----
(***************************************************************************)
(* Model of package memocache: the single-flight Value cell, the keyed     *)
(* Cache (and the legacy Map) over a MapInterface, the MultiLevelMap tree  *)
(* with Prune, the LRUMap backing store and the RRCache.                   *)
(*                                                                         *)
(* Heap objects are kept in sequences: cells[i] is a *Value, maps[i] is a  *)
(* cache node (a Cache over sync.Map / the legacy Map, or a Cache over an  *)
(* LRUMap).  Every goroutine is a small state machine whose steps are the  *)
(* atomic operations of the code: the backing store's LoadOrStore/Delete   *)
(* and the three outcomes of sync.Once.Do (run the function, wait for the  *)
(* running one, or skip it).                                               *)
(***************************************************************************)
EXTENDS Integers, Sequences, FiniteSets, TLC

\* ---------------------------------------------------------------- bounds
NThreads   == 2   \* concurrent callers
NKeys      == 2   \* distinct key values
MaxCalls   == 3   \* calls issued in all by the concurrent callers
SeqOps     == 5   \* calls issued by the single caller of the sequential one
Depth      == 2   \* length of a full MultiLevelMap path
LRUMaxSize == 2   \* maxSize handed to NewLRUMap
RRMaxSize  == 2   \* maxSize handed to NewRRCache
RRTarget   == 1   \* targetNum handed to NewRRCache
RRCalls    == 4   \* calls issued in all on the RRCaches used directly
RRDelOps   == 3   \* the same when Delete is among the calls

Threads == 1..NThreads
Keys    == 1..NKeys

RECURSIVE PathsOfLen(_)
PathsOfLen(n) ==
    IF n = 0 THEN {<<>>}
    ELSE {<<k>> \o p : k \in Keys, p \in PathsOfLen(n - 1)}

AllPaths  == UNION {PathsOfLen(n) : n \in 0..Depth}
KeyPaths  == PathsOfLen(1)        \* the keys of a single-level Cache
LeafPaths == PathsOfLen(Depth)    \* the full paths of the MultiLevelMap
PrunePaths == UNION {PathsOfLen(n) : n \in 1..Depth}

IsPrefix(p, q) == Len(p) <= Len(q) /\ SubSeq(q, 1, Len(p)) = p

\* The LRUMaps used directly (not as the nodes of a MultiLevelMap): two
\* instances that share one list, as the nodes of a tree do.
LRUMaps == {1, 2}

\* The RRCaches used directly: two instances that share one counter.
RRCaches == {1, 2}

\* ---------------------------------------------------------------- values
\* interface{} values held by a cell: the zero value, a client value, or a
\* pointer to a cache node (CacheInterface).
Nil     == [kind |-> "nil",  v |-> 0]
Leaf(x) == [kind |-> "leaf", v |-> x]
Node(i) == [kind |-> "node", v |-> i]

\* Every call is given a closure of its own, named by a number f, whose
\* result tells it from the result of every other closure.
FuncResult(f) == f

VARIABLES
    cells,     \* heap of Value cells: [st, val]
    maps,      \* heap of cache nodes: [kind, m], m: key -> cell id (0 = absent)
    list,      \* the shared container/list of the LRUMaps, front first
    newMap,    \* MultiLevelMap.newMap ("none": no MultiLevelMap was built)
    th,        \* the goroutines
    callers,   \* the goroutines that issue calls
    budget,    \* calls that may still be issued
    calls,     \* history: getValue invocations per path, as [f, cell]
    rets,      \* history: values returned by LoadOrCall per path
    deleted,   \* history: paths a Delete / Prune was issued for
    created,   \* history: nodes created per path prefix
    lastVal,   \* history (sequential caller): value last returned per path
    stale,     \* history (sequential caller): paths pruned since
    size,      \* *currentSize, the counter shared by the RRCaches
    failed,    \* history: cells whose getValue panicked
    lastUse    \* history: when each LRU entry was last given to LoadOrStore

vars == <<cells, maps, list, newMap, th, callers, budget,
          calls, rets, deleted, created, lastVal, stale,
          size, failed, lastUse>>

heap  == <<cells, maps, list, newMap>>
hist  == <<calls, rets, deleted, created>>
seqh  == <<lastVal, stale>>
aux   == <<size, failed, lastUse>>

RootCell == 1      \* MultiLevelMap.v
CacheNode == 1     \* the node built by NewCache(&sync.Map{})

NewCell == [st |-> "new", val |-> Nil]
EmptyIndex == [k \in Keys |-> 0]
NewNode(kind) == [kind |-> kind, m |-> EmptyIndex]

IdleRec == [pc |-> "idle", op |-> "none", path |-> <<>>, f |-> 0,
            wait |-> <<>>, stage |-> "none", node |-> 0, rest |-> <<>>,
            cell |-> 0, called |-> FALSE, res |-> Nil, noEntry |-> FALSE,
            raced |-> FALSE, loaded |-> FALSE, sweeps |-> 0, todo |-> {},
            victim |-> 0, passes |-> {}]

\* ------------------------------------------------------- backing stores
\* The outcome of a store operation: the new heap and the cell it returns.
Outcome(cs, ms, l, c) == [cells |-> cs, maps |-> ms, list |-> l, cell |-> c]

\* Mutant of SyncLoadOrStore: a plain Store, which replaces an existing cell.
SyncStoreAlways(n, k) ==
    LET c == Len(cells) + 1
    IN  Outcome(Append(cells, NewCell), [maps EXCEPT ![n].m[k] = c], list, c)

\* Mutant of SyncLoadOrStore: all keys of a map land in one slot.
SyncLoadOrStoreOneSlot(n, k) ==
    LET j == CHOOSE i \in Keys : \A i2 \in Keys : i <= i2
    IN  IF maps[n].m[j] # 0
        THEN Outcome(cells, maps, list, maps[n].m[j])
        ELSE LET c == Len(cells) + 1
             IN  Outcome(Append(cells, NewCell), [maps EXCEPT ![n].m[j] = c],
                         list, c)

\* sync.Map.LoadOrStore(key, &Value{}): the existing cell, or a fresh one.
SyncLoadOrStore(n, k) ==
    IF maps[n].m[k] # 0
    THEN Outcome(cells, maps, list, maps[n].m[k])
    ELSE LET c == Len(cells) + 1
         IN  Outcome(Append(cells, NewCell), [maps EXCEPT ![n].m[k] = c], list, c)

\* Mutant of SyncDelete: the removed cell is also reset in place.
SyncDeleteResetsCell(n, k) ==
    Outcome(IF maps[n].m[k] = 0 THEN cells
            ELSE [cells EXCEPT ![maps[n].m[k]] = NewCell],
            [maps EXCEPT ![n].m[k] = 0], list, 0)

\* Mutant of SyncDelete: the key is not removed.
SyncDeleteNothing(n, k) == Outcome(cells, maps, list, 0)

\* Mutant of SyncDelete: every key of the node is removed.
SyncDeleteAll(n, k) == Outcome(cells, [maps EXCEPT ![n].m = EmptyIndex], list, 0)

\* sync.Map.Delete(key)
SyncDelete(n, k) == Outcome(cells, [maps EXCEPT ![n].m[k] = 0], list, 0)

\* Position of the list element of map n, key k (0 when there is none).
ElemPos(l, n, k) ==
    LET S == {i \in 1..Len(l) : l[i].M = n /\ l[i].Key = k}
    IN  IF S = {} THEN 0 ELSE CHOOSE i \in S : TRUE

\* list.Remove(e)
ListRemove(l, i) == SubSeq(l, 1, i - 1) \o SubSeq(l, i + 1, Len(l))

\* Mutant of MoveToFront: the element stays where it is.
MoveToFrontKeepsPlace(l, i) == l

\* list.MoveToFront(e)
MoveToFront(l, i) == <<l[i]>> \o ListRemove(l, i)

\* Mutant of EvictLoop: the evicted element is removed from the list but
\* left in the index of its map.
EvictLoopKeepsIndex(ms, l) ==
    [maps |-> ms,
     list |-> IF Len(l) > LRUMaxSize THEN SubSeq(l, 1, LRUMaxSize) ELSE l]

\* The eviction loop of LRUMap.LoadOrStore: while the list is longer than
\* maxSize, drop the back element from the index of the map that owns it
\* and from the list.
RECURSIVE EvictLoop(_, _)
EvictLoop(ms, l) ==
    IF Len(l) > LRUMaxSize
    THEN LET kv == l[Len(l)]
         IN  EvictLoop([ms EXCEPT ![kv.M].m[kv.Key] = 0],
                       SubSeq(l, 1, Len(l) - 1))
    ELSE [maps |-> ms, list |-> l]

\* Mutant of LRULoadOrStore: the given value replaces the stored one.
LRULoadOrStoreReplaces(n, k) ==
    LET c  == Len(cells) + 1
        l0 == IF maps[n].m[k] # 0
              THEN ListRemove(list, ElemPos(list, n, k)) ELSE list
        l1 == <<[M |-> n, Key |-> k, Value |-> c]>> \o l0
        ev == EvictLoop([maps EXCEPT ![n].m[k] = c], l1)
    IN  Outcome(Append(cells, NewCell), ev.maps, ev.list, c)

\* The loaded result of LRUMap.LoadOrStore: e, ok := l.m[key].
LRULoaded(n, k) == maps[n].m[k] # 0

\* LRUMap.LoadOrStore(key, &Value{}), run under the LRUMap's mutex.
LRULoadOrStore(n, k) ==
    IF maps[n].m[k] # 0
    THEN Outcome(cells, maps, MoveToFront(list, ElemPos(list, n, k)),
                 maps[n].m[k])
    ELSE LET c  == Len(cells) + 1
             l1 == <<[M |-> n, Key |-> k, Value |-> c]>> \o list
             ev == EvictLoop([maps EXCEPT ![n].m[k] = c], l1)
         IN  Outcome(Append(cells, NewCell), ev.maps, ev.list, c)

\* LRUMap.Delete(key), run under the LRUMap's mutex.  The type switch
\* e.Value.(*keyValue).Value.(*LRUMap) never succeeds here: the values a
\* Cache stores in its MapInterface are *Value cells.
LRUDelete(n, k) ==
    IF maps[n].m[k] = 0
    THEN Outcome(cells, maps, list, 0)
    ELSE Outcome(cells, [maps EXCEPT ![n].m[k] = 0],
                 ListRemove(list, ElemPos(list, n, k)), 0)

\* c.m.LoadOrStore(key, &Value{}) of Cache.LoadOrCall / Map.LoadOrCall
StoreLoadOrStore(n, k) ==
    IF maps[n].kind = "lru" THEN LRULoadOrStore(n, k) ELSE SyncLoadOrStore(n, k)

\* c.m.Delete(key) of Cache.Delete / Map.Delete
StoreDelete(n, k) ==
    IF maps[n].kind = "lru" THEN LRUDelete(n, k) ELSE SyncDelete(n, k)

\* ----------------------------------------------------------------- RRCache
\* The sweeps of one eviction pass: count++; if count > 5 { break }.
MaxSweeps == 5

\* The goroutine is inside RRCache.LoadOrCall: it holds a cell of a node
\* that is an RRCache (m.v, the cell of the root, belongs to no node).
InRRCache(r) == r.stage # "root" /\ maps[r.node].kind = "rr"

\* The keys that r.m.Range finds in node n.
RRKeys(n) == {k \in Keys : maps[n].m[k] # 0}

\* Mutant of RRSizeAfterDelete: the decrement is made before the key is
\* looked up.
RRSizeAlwaysDecremented(n, k) ==
    IF maps[n].kind = "rr" THEN size - 1 ELSE size

\* The counter after RRCache.Delete(key) on node n: decremented when
\* r.m.Load(key) finds the key.  (On the other nodes there is no counter.)
RRSizeAfterDelete(n, k) ==
    IF maps[n].kind = "rr" /\ maps[n].m[k] # 0 THEN size - 1 ELSE size

\* The dynamic type of the value r.m holds for key k of node n.  The only
\* store into r.m is r.m.LoadOrStore(key, &Value{}): a nested cache is held
\* inside the cell, as the value the cell resolves to.
StoredType(n, k) == IF maps[n].m[k] # 0 THEN "*Value" ELSE "none"

\* child, ok := value.(*RRCache) in Delete, clear and maybeEvict.
IsChildCache(n, k) == StoredType(n, k) = "*RRCache"

\* The nested cache that the cell of key k of node n has resolved to, in a
\* set (empty when the cell holds no cache).
NestedCache(n, k) ==
    LET c == maps[n].m[k]
    IN  IF c # 0 /\ cells[c].st = "done" /\ cells[c].val.kind = "node"
        THEN {cells[c].val.v} ELSE {}

\* if randResult < numToEvict, with numToEvict := currentSize - r.targetNum
EvictDrawn(cur, x) == x < cur - RRTarget

\* --------------------------------------------------------- tree descent
\* findLeafNode(root, path[:n-1]...) followed by the call on the leaf node:
\* r.rest holds the components not yet consumed, the last one included.
\* With one component left the node is the leaf node and the final
\* LoadOrCall or Delete is issued on it; otherwise the next component is
\* looked up in the node with the newMap factory.
findLeafNode(r, n) ==
    IF Len(r.rest) = 1
    THEN [r EXCEPT !.node = n, !.stage = "leaf",
                   !.pc = IF r.op = "load" THEN "los" ELSE "del"]
    ELSE [r EXCEPT !.node = n, !.stage = "mid", !.pc = "los"]

\* A failed type assertion .(CacheInterface), or an invalid argument.
Panic(r) == [r EXCEPT !.pc = "panic", !.res = Nil]

\* What the caller of Value.LoadOrCall does with the value v it returns:
\* getRoot and findLeafNode assert it to be a CacheInterface and descend,
\* the final LoadOrCall returns it.
AfterValue(r, v) ==
    CASE r.stage = "root" ->
            IF v.kind = "node" THEN findLeafNode(r, v.v) ELSE Panic(r)
      [] r.stage = "mid" ->
            IF v.kind = "node"
            THEN findLeafNode([r EXCEPT !.rest = Tail(r.rest)], v.v)
            ELSE Panic(r)
      [] OTHER -> [r EXCEPT !.pc = "ret", !.res = v]

\* The prefix of its path a goroutine has resolved once the cell it holds
\* is resolved.
Consumed(r) ==
    IF r.stage = "root" THEN <<>>
    ELSE SubSeq(r.path, 1, Len(r.path) - Len(r.rest) + 1)

\* The value cached for full path p: what a descent from the root finds.
RECURSIVE Walk(_, _)
Walk(n, p) ==
    LET c == maps[n].m[Head(p)]
    IN  IF c = 0 \/ cells[c].st # "done" THEN Nil
        ELSE IF Len(p) = 1 THEN cells[c].val
        ELSE IF cells[c].val.kind = "node" THEN Walk(cells[c].val.v, Tail(p))
        ELSE Nil

Lookup(p) ==
    IF p = <<>> THEN Nil
    ELSE IF newMap = "none" THEN Walk(CacheNode, p)
    ELSE IF cells[RootCell].st = "done" /\ cells[RootCell].val.kind = "node"
         THEN Walk(cells[RootCell].val.v, p)
         ELSE Nil

\* Whether the tree holds an entry (resolved or not) at path p.
RECURSIVE HasEntryFrom(_, _)
HasEntryFrom(n, p) ==
    LET c == maps[n].m[Head(p)]
    IN  IF c = 0 THEN FALSE
        ELSE IF Len(p) = 1 THEN TRUE
        ELSE IF cells[c].st = "done" /\ cells[c].val.kind = "node"
             THEN HasEntryFrom(cells[c].val.v, Tail(p))
             ELSE FALSE

HasEntry(p) ==
    IF p = <<>> THEN FALSE
    ELSE IF newMap = "none" THEN HasEntryFrom(CacheNode, p)
    ELSE IF cells[RootCell].st = "done" /\ cells[RootCell].val.kind = "node"
         THEN HasEntryFrom(cells[RootCell].val.v, p)
         ELSE FALSE

\* ------------------------------------------------------------ sync.Once
\* Mutant of OnceMayRun: a mutex without the done flag, so that f runs for
\* every caller that finds no other caller running it.
OnceMayRunNoDoneFlag(c) == cells[c].st # "running"

\* Mutant of OnceMayRun: one lock for all cells, held while f runs.
OnceMayRunGlobalLock(c) ==
    cells[c].st = "new" /\ \A d \in 1..Len(cells) : cells[d].st # "running"

\* Mutant of OnceMayRun: the done flag is set only when f has returned a
\* value, so that f is run again after a panic.
OnceMayRunRetriesFailed(c) ==
    cells[c].st = "new" \/ (cells[c].st = "done" /\ cells[c].val = Nil)

\* e.once.Do(f) runs f only for the first caller ...
OnceMayRun(c) == cells[c].st = "new"

\* Mutant of OnceDone: the flag is set before f has returned
\* (if atomic.CompareAndSwap(&done, 0, 1) { f() }), so that a caller that
\* finds f running returns without waiting for it.
OnceDoneEarly(c) == cells[c].st # "new"

\* Mutant of PathGiven: the check of the path's length is missing.
PathNotChecked(p) == TRUE

\* ... and returns at once when f has returned.  A caller that finds f
\* running waits on the Once's mutex: no step is enabled for it.
OnceDone(c) == cells[c].st = "done"

\* The closures of the example tests block on a channel that is closed when
\* another operation has returned: getValue of r can only return once a
\* LoadOrCall for r.wait has (<<>>: it waits for nothing).
WaitOver(r) == r.stage # "leaf" \/ r.wait = <<>> \/ rets[r.wait] # {}

\* The operation a closure may wait for: the sibling with the next last
\* component (a waits for b, b waits for c).
WaitChoices(p) ==
    {<<>>} \cup {[p EXCEPT ![Len(p)] = j] : j \in {p[Len(p)] + 1} \cap Keys}

\* The n == 0 check of MultiLevelMap.LoadOrCall and MultiLevelMap.Prune.
PathGiven(p) == Len(p) # 0

\* -------------------------------------------------------------- actions
\* The record of a goroutine inside Cache.LoadOrCall(k, f) whose closure
\* waits for w, holding the cell c that c.m.LoadOrStore returned.
InLoadOrCall(k, f, w, c) ==
    [IdleRec EXCEPT !.pc = "once", !.op = "load", !.path = <<k>>,
                    !.rest = <<k>>, !.f = f, !.wait = w, !.stage = "leaf",
                    !.node = CacheNode, !.cell = c]

\* Cache.LoadOrCall(key, getValue) / Map.LoadOrCall is called and does
\* e, _ := c.m.LoadOrStore(key, &Value{}).
CacheLoadOrCall(t) ==
    /\ newMap = "none"
    /\ th[t].pc = "idle"
    /\ t \in callers /\ budget > 0
    /\ \E k \in Keys :
         LET o == StoreLoadOrStore(CacheNode, k)
         IN  /\ cells' = o.cells
             /\ maps' = o.maps
             /\ list' = o.list
             /\ th' = [th EXCEPT ![t] = InLoadOrCall(k, budget, <<>>, o.cell)]
    /\ budget' = budget - 1
    /\ UNCHANGED <<aux, newMap, callers, hist, seqh>>

\* History: goroutine record r is resolving the cell that a Delete of key
\* k in node n removes.
Races(r, n, k) ==
    r.pc \in {"once", "run"} /\ r.cell # 0 /\ r.cell = maps[n].m[k]

\* Cache.Delete(key) / Map.Delete is called and does c.m.Delete(key).
CacheDelete(t) ==
    /\ newMap = "none"
    /\ th[t].pc = "idle"
    /\ t \in callers /\ budget > 0
    /\ \E k \in Keys :
         LET o == StoreDelete(CacheNode, k)
             r == [IdleRec EXCEPT !.pc = "ret", !.op = "prune",
                                  !.path = <<k>>, !.rest = <<k>>,
                                  !.stage = "leaf", !.node = CacheNode,
                                  !.noEntry = ~HasEntry(<<k>>)]
         IN  /\ cells' = o.cells
             /\ maps' = o.maps
             /\ list' = o.list
             /\ th' = [u \in Threads |->
                         IF u = t THEN r
                         ELSE IF Races(th[u], CacheNode, k)
                              THEN [th[u] EXCEPT !.raced = TRUE]
                              ELSE th[u]]
             /\ deleted' = deleted \cup {<<k>>}
    /\ budget' = budget - 1
    /\ UNCHANGED <<aux, newMap, callers, calls, rets, created, seqh>>

\* One goroutine of ExampleCache_differentKeysNotBlocked: its only call is
\* Cache.LoadOrCall(key, getValue) with a closure that may wait until the
\* call for the next key has returned.
ChainLoadOrCall(t) ==
    /\ newMap = "none"
    /\ th[t].pc = "idle"
    /\ t \in callers
    /\ \E k \in Keys :
         \E w \in WaitChoices(<<k>>) :
            LET o == StoreLoadOrStore(CacheNode, k)
            IN  /\ cells' = o.cells
                /\ maps' = o.maps
                /\ list' = o.list
                /\ th' = [th EXCEPT ![t] = InLoadOrCall(k, t, w, o.cell)]
    /\ callers' = callers \ {t}
    /\ UNCHANGED <<aux, newMap, budget, hist, seqh>>

\* The entry of MultiLevelMap.LoadOrCall and MultiLevelMap.Prune: panic on
\* an empty path, else m.getRoot() starts resolving m.v.
EnterMLM(op, p, f, w) ==
    LET r == [IdleRec EXCEPT !.op = op, !.path = p, !.rest = p, !.f = f,
                             !.wait = w,
                             !.noEntry = (op = "prune" /\ ~HasEntry(p))]
    IN  IF PathGiven(p)
        THEN [r EXCEPT !.pc = "once", !.stage = "root", !.cell = RootCell]
        ELSE Panic(r)

\* MultiLevelMap.LoadOrCall(getValue, path...) is called.
MLMLoadOrCall(t) ==
    /\ newMap # "none"
    /\ th[t].pc = "idle"
    /\ t \in callers /\ budget > 0
    /\ \E p \in LeafPaths :
         th' = [th EXCEPT ![t] = EnterMLM("load", p, budget, <<>>)]
    /\ budget' = budget - 1
    /\ UNCHANGED <<aux, heap, callers, hist, seqh>>

\* MultiLevelMap.LoadOrCall(getValue, path...) is called with a path of any
\* length from 1 to Depth.
MLMLoadOrCallAny(t) ==
    /\ newMap # "none"
    /\ th[t].pc = "idle"
    /\ t \in callers /\ budget > 0
    /\ \E p \in PrunePaths :
         th' = [th EXCEPT ![t] = EnterMLM("load", p, budget, <<>>)]
    /\ budget' = budget - 1
    /\ UNCHANGED <<aux, heap, callers, hist, seqh>>

\* One goroutine of ExampleMultiLevelMap_differentKeysNotBlocked: its only
\* call is MultiLevelMap.LoadOrCall(getValue, path...) with a closure that
\* may wait until the call for the next sibling path has returned.
MLMChainLoadOrCall(t) ==
    /\ newMap # "none"
    /\ th[t].pc = "idle"
    /\ t \in callers
    /\ \E p \in LeafPaths :
         \E w \in WaitChoices(p) :
            th' = [th EXCEPT ![t] = EnterMLM("load", p, t, w)]
    /\ callers' = callers \ {t}
    /\ UNCHANGED <<aux, heap, budget, hist, seqh>>

\* One goroutine whose only call is MultiLevelMap.LoadOrCall(getValue) or
\* MultiLevelMap.Prune() with no path at all.
MLMCallWithoutPath(t) ==
    /\ newMap # "none"
    /\ th[t].pc = "idle"
    /\ t \in callers
    /\ \E op \in {"load", "prune"} :
         th' = [th EXCEPT ![t] = EnterMLM(op, <<>>, t, <<>>)]
    /\ callers' = callers \ {t}
    /\ UNCHANGED <<aux, heap, budget, hist, seqh>>

\* MultiLevelMap.Prune(path...) is called.
MLMPrune(t) ==
    /\ newMap # "none"
    /\ th[t].pc = "idle"
    /\ t \in callers /\ budget > 0
    /\ \E p \in PrunePaths :
         /\ th' = [th EXCEPT ![t] = EnterMLM("prune", p, 0, <<>>)]
         /\ deleted' = deleted \cup {p}
    /\ budget' = budget - 1
    /\ UNCHANGED <<aux, heap, callers, calls, rets, created, seqh>>

\* e, _ := c.m.LoadOrStore(key, &Value{})
LoadOrStore(t) ==
    LET r == th[t]
    IN  /\ r.pc = "los"
        /\ LET o == StoreLoadOrStore(r.node, Head(r.rest))
           IN  /\ cells' = o.cells
               /\ maps' = o.maps
               /\ list' = o.list
               /\ th' = [th EXCEPT ![t] = [r EXCEPT !.pc = "once", !.cell = o.cell]]
        /\ UNCHANGED <<aux, newMap, callers, budget, hist, seqh>>

\* c.m.Delete(key): the last step of Cache.Delete and MultiLevelMap.Prune;
\* on an RRCache node, the body of RRCache.Delete.
Delete(t) ==
    LET r == th[t]
    IN  /\ r.pc = "del"
        /\ LET o == StoreDelete(r.node, Head(r.rest))
           IN  /\ cells' = o.cells
               /\ maps' = o.maps
               /\ list' = o.list
               /\ th' = [u \in Threads |->
                           IF u = t THEN [r EXCEPT !.pc = "ret", !.res = Nil]
                           ELSE IF Races(th[u], r.node, Head(r.rest))
                                THEN [th[u] EXCEPT !.raced = TRUE]
                                ELSE th[u]]
        /\ size' = RRSizeAfterDelete(r.node, Head(r.rest))
        /\ UNCHANGED <<failed, lastUse, newMap, callers, budget, hist, seqh>>

\* Value.LoadOrCall, first caller: once.Do starts running the function
\* (getValue on the last component, the node factory before it).
OnceBegin(t) ==
    LET r == th[t]
    IN  /\ r.pc = "once"
        /\ ~InRRCache(r)
        /\ OnceMayRun(r.cell)
        /\ cells' = [cells EXCEPT ![r.cell].st = "running"]
        /\ th' = [th EXCEPT ![t] = [r EXCEPT !.pc = "run",
                                             !.called = (r.stage = "leaf")]]
        /\ calls' = IF r.stage = "leaf"
                    THEN [calls EXCEPT ![r.path] =
                             Append(@, [f |-> r.f, cell |-> r.cell])]
                    ELSE calls
        /\ UNCHANGED <<aux, maps, list, newMap, callers, budget, rets, deleted, created, seqh>>

\* RRCache.LoadOrCall(key, getValue) is called on one of the RRCaches used
\* directly and does e, _ := r.m.LoadOrStore(key, &Value{}).  The history
\* is kept under the path <<cache, key>>.  Goroutine 1 issues its calls one
\* after the other; every other goroutine was started for one call.
RRLoadOrCall(t) ==
    /\ newMap = "none"
    /\ th[t].pc = "idle"
    /\ t \in callers /\ budget > 0
    /\ \E n \in RRCaches, k \in Keys :
         LET o == SyncLoadOrStore(n, k)
         IN  /\ cells' = o.cells
             /\ maps' = o.maps
             /\ list' = o.list
             /\ th' = [th EXCEPT ![t] =
                        [InLoadOrCall(k, budget, <<>>, o.cell)
                            EXCEPT !.node = n, !.path = <<n, k>>]]
    /\ budget' = budget - 1
    /\ callers' = IF t = 1 THEN callers ELSE callers \ {t}
    /\ UNCHANGED <<aux, newMap, hist, seqh>>

\* RRCache.LoadOrCall, first caller of the cell: once.Do starts running the
\* closure, which does atomic.AddInt32(r.currentSize, 1) and enters
\* r.maybeEvict().
RRBegin(t) ==
    LET r == th[t]
    IN  /\ r.pc = "once"
        /\ InRRCache(r)
        /\ OnceMayRun(r.cell)
        /\ cells' = [cells EXCEPT ![r.cell].st = "running"]
        /\ size' = size + 1
        /\ th' = [th EXCEPT ![t] = [r EXCEPT !.pc = "evict", !.sweeps = 0,
                                             !.passes = {r.node}]]
        /\ UNCHANGED <<failed, lastUse, maps, list, newMap, callers, budget,
                       hist, seqh>>

\* Mutant of SweepAgain: the loop without its count of sweeps.
SweepAgainUncounted(cnt) == size > RRMaxSize

\* for atomic.LoadInt32(r.currentSize) > r.maxSize { count++; if count > 5
\* { break }; ... }: whether another sweep is made after cnt sweeps.
SweepAgain(cnt) == size > RRMaxSize /\ cnt < MaxSweeps

\* maybeEvict: the test of the loop, made on entry and when r.m.Range has
\* called the function for every key of the sweep.  While the counter is
\* above maxSize and fewer than MaxSweeps sweeps were made, r.m.Range starts
\* another sweep;
\* otherwise maybeEvict returns and the closure calls getValue (the node
\* factory on an inner node).
RRLoop(t) ==
    LET r == th[t]
    IN  /\ \/ r.pc = "evict"
           \/ r.pc = "sweep" /\ r.todo \cap RRKeys(r.node) = {}
        /\ IF SweepAgain(r.sweeps)
           THEN /\ th' = [th EXCEPT ![t] =
                            [r EXCEPT !.pc = "sweep", !.sweeps = @ + 1,
                                      !.todo = RRKeys(r.node)]]
                /\ calls' = calls
           ELSE /\ th' = [th EXCEPT ![t] =
                            [r EXCEPT !.pc = "run", !.todo = {}, !.sweeps = 0,
                                      !.passes = {},
                                      !.called = (r.stage = "leaf")]]
                /\ calls' = IF r.stage = "leaf"
                            THEN [calls EXCEPT ![r.path] =
                                     Append(@, [f |-> r.f, cell |-> r.cell])]
                            ELSE calls
        /\ UNCHANGED <<aux, heap, callers, budget, rets, deleted, created, seqh>>

\* One call of the function given to r.m.Range, for a key of the sweep that
\* is still in the map.  child.maybeEvict() is called first when the value
\* asserts to a *RRCache (r.passes records the caches maybeEvict was called
\* on).  Then the counter is read, intn is called with it, and the key is
\* deleted next when the draw is below numToEvict.
RRDraw(t) ==
    LET r == th[t]
    IN  /\ r.pc = "sweep"
        /\ size > 0
        /\ \E k \in r.todo \cap RRKeys(r.node) :
             \E x \in 0..(size - 1) :
                LET r1 == [r EXCEPT !.todo = @ \ {k},
                                    !.passes = IF IsChildCache(r.node, k)
                                               THEN @ \cup NestedCache(r.node, k)
                                               ELSE @]
                IN  th' = [th EXCEPT ![t] =
                             IF EvictDrawn(size, x)
                             THEN [r1 EXCEPT !.pc = "rrdel", !.victim = k]
                             ELSE r1]
        /\ UNCHANGED <<aux, heap, callers, budget, hist, seqh>>

\* The same when the counter read is zero or negative: rand.Intn panics on
\* such a bound.  The panic leaves once.Do as a panic of getValue does.
RRDrawPanic(t) ==
    LET r == th[t]
    IN  /\ r.pc = "sweep"
        /\ size <= 0
        /\ r.todo \cap RRKeys(r.node) # {}
        /\ cells' = [cells EXCEPT ![r.cell] = [st |-> "done", val |-> Nil]]
        /\ th' = [th EXCEPT ![t] = Panic([r EXCEPT !.todo = {}])]
        /\ failed' = failed \cup {r.cell}
        /\ UNCHANGED <<size, lastUse, maps, list, newMap, callers, budget,
                       hist, seqh>>

\* RRCache.Delete(key) is called on one of the RRCaches used directly.
\* r.loaded records whether the key had an entry when the call was made.
RRDelete(t) ==
    /\ newMap = "none"
    /\ th[t].pc = "idle"
    /\ t \in callers /\ budget > 0
    /\ \E n \in RRCaches, k \in Keys :
         /\ th' = [th EXCEPT ![t] =
                    [IdleRec EXCEPT !.pc = "rrdel", !.op = "delete",
                                    !.path = <<n, k>>, !.node = n,
                                    !.victim = k,
                                    !.loaded = (maps[n].m[k] # 0)]]
         /\ deleted' = deleted \cup {<<n, k>>}
    /\ budget' = budget - 1
    /\ callers' = IF t = 1 THEN callers ELSE callers \ {t}
    /\ UNCHANGED <<aux, heap, calls, rets, created, seqh>>

\* r.mu of node n is held: a goroutine is between the counter's decrement
\* and r.m.Delete(key) of RRCache.Delete.
MuHeld(n) == \E u \in Threads : th[u].pc = "rrstore" /\ th[u].node = n

\* Where RRCache.Delete returns to: the sweep that called it, or the caller.
AfterRRDelete(r) ==
    IF r.op = "load" THEN [r EXCEPT !.pc = "sweep", !.victim = 0]
    ELSE [r EXCEPT !.pc = "ret", !.victim = 0]

\* RRCache.Delete, first half: r.mu.Lock(), r.m.Load(key) and, when the key
\* is found, atomic.AddInt32(r.currentSize, -1) (the value never asserts to
\* a *RRCache).  When the key is not found Delete unlocks and returns.
RRDeleteLoad(t) ==
    LET r == th[t]
    IN  /\ r.pc = "rrdel"
        /\ ~MuHeld(r.node)
        /\ size' = RRSizeAfterDelete(r.node, r.victim)
        /\ th' = [th EXCEPT ![t] =
                    IF maps[r.node].m[r.victim] # 0
                    THEN [r EXCEPT !.pc = "rrstore"]
                    ELSE AfterRRDelete([r EXCEPT !.noEntry = (r.op = "delete")])]
        /\ UNCHANGED <<failed, lastUse, heap, callers, budget, hist, seqh>>

\* RRCache.Delete, second half: r.m.Delete(key) and the deferred
\* r.mu.Unlock().
RRDeleteStore(t) ==
    LET r == th[t]
        o == SyncDelete(r.node, r.victim)
    IN  /\ r.pc = "rrstore"
        /\ cells' = o.cells
        /\ maps' = o.maps
        /\ list' = o.list
        /\ th' = [th EXCEPT ![t] = AfterRRDelete(r)]
        /\ UNCHANGED <<aux, newMap, callers, budget, hist, seqh>>

\* r.Delete(key) called by the sweep, taken as one step where no caller
\* issues Delete and no goroutine panics: under r.mu, when the key is still in
\* the map the counter is decremented and the key removed.
RREvict(t) ==
    LET r == th[t]
        o == SyncDelete(r.node, r.victim)
    IN  /\ r.pc = "rrdel"
        /\ size' = RRSizeAfterDelete(r.node, r.victim)
        /\ cells' = o.cells
        /\ maps' = o.maps
        /\ list' = o.list
        /\ th' = [th EXCEPT ![t] = [r EXCEPT !.pc = "sweep", !.victim = 0]]
        /\ UNCHANGED <<failed, lastUse, newMap, callers, budget, hist, seqh>>

\* Value.LoadOrCall, first caller: the function returns, e.value is
\* assigned, the Once is done and e.value is returned to the caller.
OnceFinish(t) ==
    LET r == th[t]
        isLeaf  == r.stage = "leaf"
        factory == IF newMap = "nil" THEN "map" ELSE newMap
        v  == IF isLeaf THEN Leaf(FuncResult(r.f)) ELSE Node(Len(maps) + 1)
        r2 == AfterValue(r, v)
    IN  /\ r.pc = "run"
        /\ WaitOver(r)
        /\ maps' = IF isLeaf THEN maps ELSE Append(maps, NewNode(factory))
        /\ newMap' = IF r.stage = "root" THEN factory ELSE newMap
        /\ cells' = [cells EXCEPT ![r.cell] = [st |-> "done", val |-> v]]
        /\ th' = [th EXCEPT ![t] = r2]
        /\ rets' = IF r2.pc = "ret"
                   THEN [rets EXCEPT ![r.path] = @ \cup {v}]
                   ELSE rets
        /\ created' = IF isLeaf THEN created
                      ELSE [created EXCEPT ![Consumed(r)] = @ + 1]
        /\ UNCHANGED <<aux, list, callers, budget, calls, deleted, seqh>>

\* Value.LoadOrCall, first caller: getValue panics.  The deferred calls of
\* once.Do mark the Once done and unlock it, e.value is never assigned, and
\* the panic goes up to the caller of LoadOrCall.
OncePanic(t) ==
    LET r == th[t]
    IN  /\ r.pc = "run"
        /\ r.stage = "leaf"
        /\ cells' = [cells EXCEPT ![r.cell] = [st |-> "done", val |-> Nil]]
        /\ th' = [th EXCEPT ![t] = Panic(r)]
        /\ failed' = failed \cup {r.cell}
        /\ UNCHANGED <<size, lastUse, maps, list, newMap, callers, budget,
                       hist, seqh>>

\* Value.LoadOrCall, later caller: once.Do returns without calling the
\* function and e.value is returned.
OnceSkip(t) ==
    LET r  == th[t]
        r2 == AfterValue(r, cells[r.cell].val)
    IN  /\ r.pc = "once"
        /\ OnceDone(r.cell)
        /\ th' = [th EXCEPT ![t] = r2]
        /\ rets' = IF r2.pc = "ret"
                   THEN [rets EXCEPT ![r.path] = @ \cup {r2.res}]
                   ELSE rets
        /\ UNCHANGED <<aux, heap, callers, budget, calls, deleted, created, seqh>>

\* The call returns to (or the panic is recovered by) the caller.
Return(t) ==
    /\ th[t].pc \in {"ret", "panic"}
    /\ th' = [th EXCEPT ![t] = IdleRec]
    /\ UNCHANGED <<aux, heap, callers, budget, hist, seqh>>

\* The same for the single sequential caller, whose history is recorded:
\* the value it got for the path, and the paths it has pruned since.
SeqReturn(t) ==
    LET r == th[t]
    IN  /\ r.pc \in {"ret", "panic"}
        /\ th' = [th EXCEPT ![t] = IdleRec]
        /\ lastVal' = IF r.pc = "ret" /\ r.op = "load"
                      THEN [lastVal EXCEPT ![r.path] = r.res]
                      ELSE lastVal
        /\ stale' = CASE r.pc = "ret" /\ r.op = "load" -> stale \ {r.path}
                      [] r.pc = "ret" /\ r.op = "prune" ->
                            stale \cup {p \in AllPaths : IsPrefix(r.path, p)}
                      [] OTHER -> stale
        /\ UNCHANGED <<aux, heap, callers, budget, hist>>

\* ---------------------------------------------------- LRUMap used directly
\* A goroutine holds the mutex of LRUMap n from l.mu.Lock() to the deferred
\* l.mu.Unlock().
HoldsMu(r, n) == r.pc = "crit" /\ r.node = n

\* l.mu.Lock() of LRUMap n can return for goroutine t.
MuFree(t, n) == \A u \in Threads \ {t} : ~HoldsMu(th[u], n)

\* History: the time of the next access.
NextUse ==
    LET S == {lastUse[e] : e \in DOMAIN lastUse}
    IN  1 + CHOOSE x \in S : \A y \in S : y <= x

\* LRUMap.LoadOrStore(key, &Value{}) or LRUMap.Delete(key) is called on one
\* of the LRUMaps.
LRUCall(t) ==
    /\ newMap = "none"
    /\ th[t].pc = "idle"
    /\ t \in callers /\ budget > 0
    /\ \E n \in LRUMaps, k \in Keys, op \in {"lrustore", "lrudelete"} :
         th' = [th EXCEPT ![t] =
                  [IdleRec EXCEPT !.pc = "lock", !.op = op, !.node = n,
                                  !.path = <<k>>, !.rest = <<k>>,
                                  !.stage = "leaf"]]
    /\ budget' = budget - 1
    /\ UNCHANGED <<aux, heap, callers, hist, seqh>>

\* l.mu.Lock()
LRULock(t) ==
    LET r == th[t]
    IN  /\ r.pc = "lock"
        /\ MuFree(t, r.node)
        /\ th' = [th EXCEPT ![t] = [r EXCEPT !.pc = "crit"]]
        /\ UNCHANGED <<aux, heap, callers, budget, hist, seqh>>

\* Another goroutine is inside a critical section on the same list: the
\* LRUMaps share the list, and each has a mutex of its own.
Overlaps(t) == \E u \in Threads \ {t} : th[u].pc = "crit"

\* The index and the list agree on key k of LRUMap n.  Only a race on the
\* shared list can break this.
Linked(n, k) == maps[n].m[k] = 0 \/ ElemPos(list, n, k) # 0

\* The body of LRUMap.LoadOrStore and the deferred Unlock.
LRUStoreBody(t) ==
    LET r == th[t]
        n == r.node
        k == Head(r.rest)
        o == LRULoadOrStore(n, k)
    IN  /\ r.pc = "crit" /\ r.op = "lrustore"
        /\ Linked(n, k)
        /\ cells' = o.cells
        /\ maps' = o.maps
        /\ list' = o.list
        /\ th' = [th EXCEPT ![t] = [r EXCEPT !.pc = "ret", !.cell = o.cell,
                                             !.loaded = LRULoaded(n, k)]]
        /\ lastUse' = [lastUse EXCEPT ![<<n, k>>] = NextUse]
        /\ UNCHANGED <<size, failed, newMap, callers, budget, hist, seqh>>

\* The body of LRUMap.LoadOrStore when it overlaps another body on the
\* shared list: the unsynchronised accesses to the list race, and besides
\* the outcome of running the two bodies one after the other (LRUStoreBody)
\* the element pushed may be lost from the list while the index keeps it.
LRUStoreBodyRacing(t) ==
    LET r == th[t]
        n == r.node
        k == Head(r.rest)
        o == LRULoadOrStore(n, k)
    IN  /\ r.pc = "crit" /\ r.op = "lrustore"
        /\ Overlaps(t)
        /\ ~LRULoaded(n, k)
        /\ cells' = o.cells
        /\ maps' = o.maps
        /\ list' = Tail(o.list)
        /\ th' = [th EXCEPT ![t] = [r EXCEPT !.pc = "ret", !.cell = o.cell,
                                             !.loaded = FALSE]]
        /\ lastUse' = [lastUse EXCEPT ![<<n, k>>] = NextUse]
        /\ UNCHANGED <<size, failed, newMap, callers, budget, hist, seqh>>

\* A body that finds in the index an element that a race left out of the
\* list works on a corrupted list: the call is taken to crash.
LRUCorruptBody(t) ==
    LET r == th[t]
    IN  /\ r.pc = "crit"
        /\ ~Linked(r.node, Head(r.rest))
        /\ th' = [th EXCEPT ![t] = Panic(r)]
        /\ UNCHANGED <<aux, heap, callers, budget, hist, seqh>>

\* The body of LRUMap.Delete and the deferred Unlock.
LRUDeleteBody(t) ==
    LET r == th[t]
        o == LRUDelete(r.node, Head(r.rest))
    IN  /\ r.pc = "crit" /\ r.op = "lrudelete"
        /\ Linked(r.node, Head(r.rest))
        /\ cells' = o.cells
        /\ maps' = o.maps
        /\ list' = o.list
        /\ th' = [th EXCEPT ![t] = [r EXCEPT !.pc = "ret"]]
        /\ deleted' = deleted \cup {r.path}
        /\ UNCHANGED <<aux, newMap, callers, budget, calls, rets, created, seqh>>

\* ------------------------------------------------------- specifications
HistInit ==
    /\ calls = [p \in AllPaths |-> <<>>]
    /\ rets = [p \in AllPaths |-> {}]
    /\ deleted = {}
    /\ created = [p \in AllPaths |-> 0]
    /\ lastVal = [p \in AllPaths |-> Nil]
    /\ stale = {}
    /\ size = 0
    /\ failed = {}
    /\ lastUse = [e \in LRUMaps \X Keys |-> 0]

\* m := NewCache(&sync.Map{}) (or var m Map), shared by NThreads callers.
CacheInit ==
    /\ cells = <<>>
    /\ maps = <<NewNode("map")>>
    /\ list = <<>>
    /\ newMap = "none"
    /\ th = [t \in Threads |-> IdleRec]
    /\ callers = Threads
    /\ budget = MaxCalls
    /\ HistInit

CacheNext ==
    \E t \in Threads :
        \/ CacheLoadOrCall(t)
        \/ CacheDelete(t)
        \/ OnceBegin(t)
        \/ OnceFinish(t)
        \/ OnceSkip(t)
        \/ Return(t)

SpecCache == CacheInit /\ [][CacheNext]_vars

\* The goroutines of ExampleCache_differentKeysNotBlocked, one call each.
ChainNext ==
    \E t \in Threads :
        \/ ChainLoadOrCall(t)
        \/ OnceBegin(t)
        \/ OnceFinish(t)
        \/ OnceSkip(t)
        \/ Return(t)

SpecChain == CacheInit /\ [][ChainNext]_vars

\* var m MultiLevelMap, shared by NThreads goroutines with one call each.
MLMInit ==
    /\ cells = <<NewCell>>
    /\ maps = <<>>
    /\ list = <<>>
    /\ newMap = "nil"
    /\ th = [t \in Threads |-> IdleRec]
    /\ callers = Threads
    /\ budget = MaxCalls
    /\ HistInit

MLMNext ==
    \E t \in Threads :
        \/ MLMChainLoadOrCall(t)
        \/ MLMCallWithoutPath(t)
        \/ LoadOrStore(t)
        \/ OnceBegin(t)
        \/ OnceFinish(t)
        \/ OnceSkip(t)
        \/ Return(t)

SpecMLM == MLMInit /\ [][MLMNext]_vars

\* One caller issuing SeqOps calls one after the other on a Cache over
\* sync.Map.
SeqCacheInit ==
    /\ cells = <<>>
    /\ maps = <<NewNode("map")>>
    /\ list = <<>>
    /\ newMap = "none"
    /\ th = [t \in Threads |-> IdleRec]
    /\ callers = {1}
    /\ budget = SeqOps
    /\ HistInit

SeqCacheNext ==
    \E t \in Threads :
        \/ CacheLoadOrCall(t)
        \/ CacheDelete(t)
        \/ OnceBegin(t)
        \/ OnceFinish(t)
        \/ OnceSkip(t)
        \/ SeqReturn(t)

SpecSeqCache == SeqCacheInit /\ [][SeqCacheNext]_vars

\* One caller issuing SeqOps calls one after the other on a zero
\* MultiLevelMap (whose nodes are Maps), or on
\* NewMultiLevelMap(func() CacheInterface {
\*     return NewCache(NewLRUMap(sharedList, LRUMaxSize)) }).
SeqMLMInit ==
    /\ newMap \in {"nil", "lru"}
    /\ cells = <<NewCell>>
    /\ maps = <<>>
    /\ list = <<>>
    /\ th = [t \in Threads |-> IdleRec]
    /\ callers = {1}
    /\ budget = SeqOps
    /\ HistInit

SeqMLMNext ==
    \E t \in Threads :
        \/ MLMLoadOrCall(t)
        \/ MLMPrune(t)
        \/ LoadOrStore(t)
        \/ Delete(t)
        \/ OnceBegin(t)
        \/ OnceFinish(t)
        \/ OnceSkip(t)
        \/ SeqReturn(t)

SpecSeqMLM == SeqMLMInit /\ [][SeqMLMNext]_vars

\* var m MultiLevelMap (newMap nil), used by one caller that issues SeqOps
\* calls of LoadOrCall and Prune one after the other, with paths of every
\* length.
SeqMixInit ==
    /\ newMap = "nil"
    /\ cells = <<NewCell>>
    /\ maps = <<>>
    /\ list = <<>>
    /\ th = [t \in Threads |-> IdleRec]
    /\ callers = {1}
    /\ budget = SeqOps
    /\ HistInit

SeqMixNext ==
    \E t \in Threads :
        \/ MLMLoadOrCallAny(t)
        \/ MLMPrune(t)
        \/ LoadOrStore(t)
        \/ Delete(t)
        \/ OnceBegin(t)
        \/ OnceFinish(t)
        \/ OnceSkip(t)
        \/ SeqReturn(t)

SpecSeqMix == SeqMixInit /\ [][SeqMixNext]_vars

\* Two LRUMaps made by NewLRUMap(sharedList, LRUMaxSize) on one list, used
\* by one caller that issues SeqOps calls one after the other.
LRUInit ==
    /\ cells = <<>>
    /\ maps = [n \in LRUMaps |-> NewNode("lru")]
    /\ list = <<>>
    /\ newMap = "none"
    /\ th = [t \in Threads |-> IdleRec]
    /\ callers = {1}
    /\ budget = SeqOps
    /\ HistInit

LRUNext ==
    \E t \in Threads :
        \/ LRUCall(t)
        \/ LRULock(t)
        \/ LRUStoreBody(t)
        \/ LRUDeleteBody(t)
        \/ Return(t)

SpecLRU == LRUInit /\ [][LRUNext]_vars

\* The same two LRUMaps used by NThreads goroutines.
LRUConcInit ==
    /\ cells = <<>>
    /\ maps = [n \in LRUMaps |-> NewNode("lru")]
    /\ list = <<>>
    /\ newMap = "none"
    /\ th = [t \in Threads |-> IdleRec]
    /\ callers = Threads
    /\ budget = MaxCalls
    /\ HistInit

LRUConcNext ==
    \E t \in Threads :
        \/ LRUCall(t)
        \/ LRULock(t)
        \/ LRUStoreBody(t)
        \/ LRUStoreBodyRacing(t)
        \/ LRUCorruptBody(t)
        \/ LRUDeleteBody(t)
        \/ Return(t)

SpecLRUConc == LRUConcInit /\ [][LRUConcNext]_vars

\* A Cache over sync.Map whose callers give closures that may panic.
CachePanicNext ==
    \E t \in Threads :
        \/ CacheLoadOrCall(t)
        \/ CacheDelete(t)
        \/ OnceBegin(t)
        \/ OnceFinish(t)
        \/ OncePanic(t)
        \/ OnceSkip(t)
        \/ Return(t)

SpecCachePanic == CacheInit /\ [][CachePanicNext]_vars

\* NewMultiLevelMap(func() CacheInterface {
\*     return NewRRCache(&currentSize, RRMaxSize, RRTarget, rand.Intn) }),
\* used by one caller that issues MaxCalls calls one after the other.
SeqRRInit ==
    /\ newMap = "rr"
    /\ cells = <<NewCell>>
    /\ maps = <<>>
    /\ list = <<>>
    /\ th = [t \in Threads |-> IdleRec]
    /\ callers = {1}
    /\ budget = MaxCalls
    /\ HistInit

SeqRRNext ==
    \E t \in Threads :
        \/ MLMLoadOrCall(t)
        \/ MLMPrune(t)
        \/ LoadOrStore(t)
        \/ Delete(t)
        \/ OnceBegin(t)
        \/ RRBegin(t)
        \/ RRLoop(t)
        \/ RRDraw(t)
        \/ RREvict(t)
        \/ OnceFinish(t)
        \/ OnceSkip(t)
        \/ SeqReturn(t)

SpecSeqRR == SeqRRInit /\ [][SeqRRNext]_vars

\* Two RRCaches made by NewRRCache(&currentSize, RRMaxSize, RRTarget,
\* rand.Intn) on one counter, used by a goroutine that issues calls of
\* LoadOrCall one after the other and starts goroutines for one call each,
\* RRCalls calls in all.
RRInit ==
    /\ newMap = "none"
    /\ cells = <<>>
    /\ maps = [n \in RRCaches |-> NewNode("rr")]
    /\ list = <<>>
    /\ th = [t \in Threads |-> IdleRec]
    /\ callers = Threads
    /\ budget = RRCalls
    /\ HistInit

RRNext ==
    \E t \in Threads :
        \/ RRLoadOrCall(t)
        \/ RRBegin(t)
        \/ RRLoop(t)
        \/ RRDraw(t)
        \/ RREvict(t)
        \/ OnceFinish(t)
        \/ OnceSkip(t)
        \/ Return(t)

SpecRR == RRInit /\ [][RRNext]_vars

\* The same caches with MaxCalls calls in all, and a scheduler that lets
\* every goroutine that can take a step take one eventually.
RRFairInit ==
    /\ newMap = "none"
    /\ cells = <<>>
    /\ maps = [n \in RRCaches |-> NewNode("rr")]
    /\ list = <<>>
    /\ th = [t \in Threads |-> IdleRec]
    /\ callers = Threads
    /\ budget = MaxCalls
    /\ HistInit

\* A step of goroutine t inside a call.
RRStep(t) ==
    \/ RRBegin(t)
    \/ RRLoop(t)
    \/ RRDraw(t)
    \/ RREvict(t)
    \/ OnceFinish(t)
    \/ OnceSkip(t)
    \/ Return(t)

\* The RRCaches after a.LoadOrCall(1, f) and b.LoadOrCall(1, g) have
\* returned.
RRFilledCells ==
    [n \in RRCaches |-> [st |-> "done", val |-> Leaf(FuncResult(RRDelOps + n))]]

RRFilledMaps ==
    [n \in RRCaches |-> [kind |-> "rr", m |-> [k \in Keys |-> IF k = 1 THEN n ELSE 0]]]

\* Two RRCaches on one counter, used with LoadOrCall and Delete by a
\* goroutine that issues its calls one after the other and starts
\* goroutines for one call each, RRDelOps calls in all.  The calls are
\* made on the new caches, or on the caches after one key of each was
\* loaded.
RRDelInit ==
    /\ newMap = "none"
    /\ list = <<>>
    /\ th = [t \in Threads |-> IdleRec]
    /\ callers = Threads
    /\ budget = RRDelOps
    /\ deleted = {}
    /\ created = [p \in AllPaths |-> 0]
    /\ lastVal = [p \in AllPaths |-> Nil]
    /\ stale = {}
    /\ failed = {}
    /\ lastUse = [e \in LRUMaps \X Keys |-> 0]
    /\ \/ /\ cells = <<>>
          /\ maps = [n \in RRCaches |-> NewNode("rr")]
          /\ size = 0
          /\ calls = [p \in AllPaths |-> <<>>]
          /\ rets = [p \in AllPaths |-> {}]
       \/ /\ cells = RRFilledCells
          /\ maps = RRFilledMaps
          /\ size = Cardinality(RRCaches)
          /\ calls = [p \in AllPaths |->
                        IF Len(p) = 2 /\ p[1] \in RRCaches /\ p[2] = 1
                        THEN <<[f |-> RRDelOps + p[1], cell |-> p[1]]>>
                        ELSE <<>>]
          /\ rets = [p \in AllPaths |->
                        IF Len(p) = 2 /\ p[1] \in RRCaches /\ p[2] = 1
                        THEN {Leaf(FuncResult(RRDelOps + p[1]))}
                        ELSE {}]

RRDelNext ==
    \E t \in Threads :
        \/ RRLoadOrCall(t)
        \/ RRDelete(t)
        \/ RRDeleteLoad(t)
        \/ RRDeleteStore(t)
        \/ RRBegin(t)
        \/ RRLoop(t)
        \/ RRDraw(t)
        \/ RRDrawPanic(t)
        \/ OnceFinish(t)
        \/ OnceSkip(t)
        \/ Return(t)

SpecRRDel == RRDelInit /\ [][RRDelNext]_vars

SpecRRFair ==
    RRFairInit /\ [][RRNext]_vars /\ \A t \in Threads : WF_vars(RRStep(t))

\* ================================================================ claims
Holders(c) == {u \in Threads : th[u].pc = "run" /\ th[u].cell = c}
Blocked(t) == th[t].pc = "once" /\ cells[th[t].cell].st = "running"
Returned(t) == th[t].pc = "ret" /\ th[t].op = "load"

\* C1: in a Cache over sync.Map, for a key no Delete was issued for, getValue
\* is invoked at most once, and once any call for the key has returned it
\* was invoked exactly once and every value returned for the key is the
\* result of that one invocation.
C1_SingleFlightPerKey ==
    \A p \in KeyPaths :
        p \notin deleted =>
            /\ Len(calls[p]) <= 1
            /\ rets[p] # {} =>
                  /\ Len(calls[p]) = 1
                  /\ rets[p] = {Leaf(FuncResult(calls[p][1].f))}

\* Two callers have returned from the same never-deleted key with different
\* closures: one ran its closure, the other got the first one's result.
C1_Witness ==
    \E t, u \in Threads :
        /\ t # u
        /\ Returned(t) /\ Returned(u)
        /\ th[t].path = th[u].path
        /\ th[t].path \notin deleted
        /\ th[t].f # th[u].f
        /\ th[t].called /\ ~th[u].called
        /\ th[u].res = Leaf(FuncResult(th[t].f))

\* C2: a resolved cell never changes, and a LoadOrCall that finds its cell
\* resolved returns the stored value and invokes nothing, whatever closure
\* it was given.
C2_WriteOnce ==
    [][ /\ \A c \in 1..Len(cells) :
              cells[c].st = "done" => (Len(cells') >= c /\ cells'[c] = cells[c])
        /\ \A t \in Threads :
              (/\ th[t].pc = "once"
               /\ cells[th[t].cell].st = "done"
               /\ th[t].stage = "leaf"
               /\ th'[t].pc # "once")
              => /\ th'[t].pc = "ret"
                 /\ th'[t].res = cells[th[t].cell].val
                 /\ ~th'[t].called
                 /\ calls' = calls ]_vars

\* A caller has returned the stored value although its own closure would
\* have produced another one.
C2_Witness ==
    \E t \in Threads :
        /\ Returned(t)
        /\ ~th[t].called
        /\ th[t].res # Leaf(FuncResult(th[t].f))
        /\ th[t].res = cells[th[t].cell].val

\* C3: a caller only ever waits for a getValue running for its own key, and
\* when nothing can move any more, some running getValue waits for an
\* operation nobody has issued: the cache never completes a waiting cycle
\* between different keys by itself.
C3_NonInterference ==
    /\ \A t \in Threads :
          Blocked(t) =>
              \A u \in Holders(th[t].cell) : th[u].path = th[t].path
    /\ (ENABLED ChainNext)
       \/ (\A t \in Threads : th[t].pc = "idle")
       \/ \E t \in Threads :
             /\ th[t].pc = "run"
             /\ ~WaitOver(th[t])
             /\ \A u \in Threads : th[u].path # th[t].wait

\* getValue for key A is still running, blocked until a call for key B has
\* returned, and a call for B has run its own getValue and returned.
C3_Witness ==
    \E t, u \in Threads :
        /\ th[t].pc = "run"
        /\ th[t].wait = th[u].path
        /\ Returned(u)
        /\ th[u].called
        /\ th[u].path # th[t].path
        /\ rets[th[t].path] = {}

\* C5: a LoadOrCall returns the value of the cell it got from the store,
\* produced by the single invocation made on that cell, also when a Delete
\* removed the cell meanwhile; and a Delete never releases or restarts a
\* cell that is being resolved.
C5_DeleteDoesNotAffectResolving ==
    /\ \A t \in Threads :
          Returned(t) =>
              /\ cells[th[t].cell].st = "done"
              /\ th[t].res = cells[th[t].cell].val
              /\ \E i \in 1..Len(calls[th[t].path]) :
                    /\ calls[th[t].path][i].cell = th[t].cell
                    /\ th[t].res = Leaf(FuncResult(calls[th[t].path][i].f))
    /\ \A p \in KeyPaths :
          \A i, j \in 1..Len(calls[p]) :
              i # j => calls[p][i].cell # calls[p][j].cell
    /\ \A t \in Threads :
          /\ th[t].pc = "run" => cells[th[t].cell].st = "running"
          /\ Blocked(t) => Holders(th[t].cell) # {}

\* A call whose cell was deleted while it was being resolved has returned
\* that cell's value, while the key is already cached again in a new cell
\* with another value.
C5_Witness ==
    \E t \in Threads :
        /\ Returned(t)
        /\ th[t].raced
        /\ LET c == maps[CacheNode].m[th[t].path[1]]
           IN  /\ c # 0
               /\ c # th[t].cell
               /\ cells[c].st = "done"
               /\ cells[c].val # th[t].res

\* C4: the single caller's LoadOrCall(K, f2) that follows its Delete(K),
\* itself after a LoadOrCall(K, f1), invokes f2 and returns f2's result,
\* not the value the first call returned.
C4_DeleteThenReload ==
    \A t \in Threads :
        (/\ Returned(t)
         /\ newMap = "none"
         /\ th[t].path \in stale
         /\ lastVal[th[t].path] # Nil)
        => /\ th[t].called
           /\ th[t].res = Leaf(FuncResult(th[t].f))
           /\ th[t].res # lastVal[th[t].path]

\* The third call of LoadOrCall(K, f1), Delete(K), LoadOrCall(K, f2) has
\* returned.
C4_Witness ==
    \E t \in Threads :
        /\ Returned(t)
        /\ newMap = "none"
        /\ th[t].path \in stale
        /\ lastVal[th[t].path] # Nil
        /\ th[t].path \in deleted
        /\ Len(calls[th[t].path]) = 2

\* C6: on a MultiLevelMap with the default nodes and a single caller, a
\* LoadOrCall for a path of which a prefix was pruned since the path was
\* last loaded invokes its getValue and returns its result, and a
\* LoadOrCall for a cached path none of whose prefixes was pruned since
\* returns the cached value and invokes nothing.
C6_PruneIsolation ==
    newMap \in {"nil", "map"} =>
        \A t \in Threads :
            Returned(t) =>
                /\ th[t].path \in stale =>
                      /\ th[t].called
                      /\ th[t].res = Leaf(FuncResult(th[t].f))
                /\ (th[t].path \notin stale /\ lastVal[th[t].path] # Nil) =>
                      /\ ~th[t].called
                      /\ th[t].res = lastVal[th[t].path]

\* After the prune of a subtree, a path under it was computed a second
\* time, and now a path outside it has returned its old value.
C6_Witness ==
    /\ newMap = "map"
    /\ \E t \in Threads :
          /\ Returned(t)
          /\ ~th[t].called
          /\ th[t].res = lastVal[th[t].path]
          /\ th[t].res # Nil
          /\ \E P \in deleted :
                /\ Len(P) < Depth
                /\ ~IsPrefix(P, th[t].path)
                /\ \E q \in LeafPaths :
                      /\ IsPrefix(P, q)
                      /\ Len(calls[q]) = 2
                      /\ q \notin stale
                      /\ lastVal[q] = Leaf(FuncResult(calls[q][2].f))

\* The node a goroutine has reached stands for this prefix of its path.
NodePrefix(r) == SubSeq(r.path, 1, Len(r.path) - Len(r.rest))

\* C7: with concurrent MultiLevelMap.LoadOrCall calls and no Prune, the
\* root and the node of every prefix are created at most once, goroutines
\* that have descended the same prefix hold the same node, getValue is
\* invoked at most once per full path, and once a call for a path has
\* returned it was invoked exactly once and every value returned for the
\* path is its result.
C7_SingleFlightPerPath ==
    /\ \A q \in AllPaths : created[q] <= 1
    /\ \A t, u \in Threads :
          (/\ th[t].stage \in {"mid", "leaf"}
           /\ th[u].stage \in {"mid", "leaf"}
           /\ NodePrefix(th[t]) = NodePrefix(th[u]))
          => th[t].node = th[u].node
    /\ \A p \in LeafPaths :
          /\ Len(calls[p]) <= 1
          /\ rets[p] # {} =>
                /\ Len(calls[p]) = 1
                /\ rets[p] = {Leaf(FuncResult(calls[p][1].f))}

\* Two goroutines have returned from the same full path: one ran its
\* getValue, the other returned the first one's result; the root and the
\* intermediate node were created once.
C7_Witness ==
    \E t, u \in Threads :
        /\ t # u
        /\ Returned(t) /\ Returned(u)
        /\ th[t].path = th[u].path
        /\ th[t].called /\ ~th[u].called
        /\ th[u].res = Leaf(FuncResult(th[t].f))
        /\ th[t].node = th[u].node
        /\ created[<<>>] = 1
        /\ created[NodePrefix(th[t])] = 1

\* C8: a goroutine inside MultiLevelMap.LoadOrCall only ever waits for a
\* getValue that runs for its own full path, and when nothing can move any
\* more, some running getValue waits for a call nobody has issued: calls
\* for different full paths never block each other, shared prefix or not.
C8_PathsNotBlocked ==
    /\ \A t \in Threads :
          Blocked(t) =>
              \A u \in Holders(th[t].cell) :
                  th[u].stage = "leaf" => th[u].path = th[t].path
    /\ (ENABLED MLMNext)
       \/ (\A t \in Threads : th[t].pc = "idle")
       \/ \E t \in Threads :
             /\ th[t].pc = "run"
             /\ ~WaitOver(th[t])
             /\ \A u \in Threads : th[u].path # th[t].wait

\* getValue for one path is still running, blocked until the call for a
\* sibling path has returned, and that call has run its own getValue and
\* returned.
C8_Witness ==
    \E t, u \in Threads :
        /\ th[t].pc = "run"
        /\ th[t].stage = "leaf"
        /\ th[t].wait = th[u].path
        /\ Returned(u)
        /\ th[u].called
        /\ th[u].path # th[t].path
        /\ NodePrefix(th[u]) = NodePrefix(th[t])
        /\ th[u].node = th[t].node

\* C9: a MultiLevelMap.LoadOrCall or Prune with no path panics in its
\* first step and touches nothing: no cell, node or list entry changes,
\* the root is not created and getValue is not invoked; a call with no
\* path never gets any further.
C9_EmptyPathPanics ==
    /\ [](\A t \in Threads :
             (th[t].pc # "idle" /\ th[t].path = <<>>) => th[t].pc = "panic")
    /\ [][ \A t \in Threads :
             (th[t].pc = "idle" /\ th'[t].pc # "idle" /\ th'[t].path = <<>>)
             => /\ th'[t].pc = "panic"
                /\ UNCHANGED <<aux, cells, maps, list, newMap, calls, created, rets>>
       ]_vars

\* A LoadOrCall and a Prune without a path have both panicked, and the
\* root of the tree does not exist.
C9_Witness ==
    \E t, u \in Threads :
        /\ th[t].pc = "panic" /\ th[t].op = "load" /\ th[t].path = <<>>
        /\ th[u].pc = "panic" /\ th[u].op = "prune" /\ th[u].path = <<>>
        /\ cells[RootCell].st = "new"
        /\ maps = <<>>

\* The entries of the shared list.
ListEntries(l) == {l[i] : i \in 1..Len(l)}

\* C10: no step of a Prune whose path had no entry when it was called
\* changes what a full path is cached as, nor removes an entry from the
\* shared list.
C10_PruneOfMissingIsNoOp ==
    [][ \A t \in Threads :
          (th[t].op = "prune" /\ th[t].noEntry /\ th'[t] # th[t])
          => /\ \A p \in LeafPaths : Lookup(p)' = Lookup(p)
             /\ ListEntries(list) \subseteq ListEntries(list') ]_vars

\* The (map, key) pairs of the elements of a list.
EntryKeys(l) == {<<l[i].M, l[i].Key>> : i \in 1..Len(l)}

\* A step in which goroutine t runs the body of LRUMap.LoadOrStore.
StoreStep(t) ==
    th[t].pc = "crit" /\ th[t].op = "lrustore" /\ th'[t].pc = "ret"

\* C11: LRUMap.LoadOrStore(key, value) on a key that has an element in the
\* list returns (the element's value, true), moves the element to the front
\* and stores nothing; on a key that has none it returns (value, false) and
\* leaves the list as the new element followed by the old elements, cut at
\* the back to maxSize elements.
C11_LoadOrStoreContract ==
    [][ \A t \in Threads :
          StoreStep(t) =>
            LET n == th[t].node
                k == Head(th[t].rest)
                v == Len(cells) + 1
                S == {i \in 1..Len(list) : list[i].M = n /\ list[i].Key = k}
                l1 == <<[M |-> n, Key |-> k, Value |-> v]>> \o list
            IN  IF S # {}
                THEN \E i \in S :
                        /\ th'[t].loaded
                        /\ th'[t].cell = list[i].Value
                        /\ list' = <<list[i]>> \o
                                   [j \in 1..(Len(list) - 1) |->
                                      IF j < i THEN list[j] ELSE list[j + 1]]
                        /\ maps' = maps
                ELSE /\ ~th'[t].loaded
                     /\ th'[t].cell = v
                     /\ maps'[n].m[k] = v
                     /\ Len(list') <= LRUMaxSize
                     /\ list' = SubSeq(l1, 1, Len(list')) ]_vars

\* C11 witness: a LoadOrStore has found its key in a full list behind
\* another element and moved it to the front.
C11_Witness ==
    \E t \in Threads :
        /\ th[t].pc = "ret" /\ th[t].op = "lrustore" /\ th[t].loaded
        /\ Len(list) = LRUMaxSize /\ Len(list) > 1
        /\ list[1].M = th[t].node /\ list[1].Key = Head(th[t].rest)
        /\ list[1].Value < list[2].Value

\* C12: with LoadOrStore and Delete called one after the other on LRUMaps
\* that share a list, the list never holds more than maxSize elements, and
\* the index of every map holds exactly the keys of its elements in the
\* list: an evicted element is in no index.
C12_CapacityInvariant ==
    /\ Len(list) <= LRUMaxSize
    /\ \A n \in LRUMaps, k \in Keys :
          maps[n].m[k] # 0 <=>
            \E i \in 1..Len(list) :
                list[i] = [M |-> n, Key |-> k, Value |-> maps[n].m[k]]
    /\ \A i, j \in 1..Len(list) :
          (list[i].M = list[j].M /\ list[i].Key = list[j].Key) => i = j

\* C12 witness: with no Delete called, more entries have been stored than
\* the list can hold, through both maps, and an insert has just evicted.
C12_Witness ==
    \E t \in Threads :
        /\ th[t].pc = "ret" /\ th[t].op = "lrustore" /\ ~th[t].loaded
        /\ deleted = {}
        /\ Len(cells) > LRUMaxSize
        /\ Len(list) = LRUMaxSize
        /\ \E i, j \in 1..Len(list) : list[i].M # list[j].M

\* C13: every entry that a LoadOrStore evicts was last given to LoadOrStore
\* before every entry that the list keeps.
C13_EvictsLeastRecentlyUsed ==
    [][ \A t \in Threads :
          StoreStep(t) =>
            LET before == EntryKeys(list) \cup {<<th[t].node, Head(th[t].rest)>>}
                after  == EntryKeys(list')
            IN  \A e \in before \ after :
                    \A x \in after : lastUse'[e] < lastUse'[x] ]_vars

\* C13 witness: with no Delete called, an insert has evicted an entry while
\* the entry that was inserted first is still in the list, having been
\* accessed again in between.
C13_Witness ==
    \E t \in Threads :
        /\ th[t].pc = "ret" /\ th[t].op = "lrustore" /\ ~th[t].loaded
        /\ deleted = {}
        /\ Len(cells) > LRUMaxSize
        /\ \E i \in 1..Len(list) : list[i].Value = 1

\* C20: no two goroutines are at the same time inside the bodies of
\* LoadOrStore or Delete of LRUMaps that share a list.
C20_ListMutualExclusion ==
    \A t, u \in Threads :
        (th[t].pc = "crit" /\ th[u].pc = "crit") => t = u

\* The cache nodes of the subtree whose root is node n.
RECURSIVE SubtreeNodes(_)
SubtreeNodes(n) ==
    {n} \cup UNION {SubtreeNodes(cells[maps[n].m[k]].val.v) :
                      k \in {j \in Keys : /\ maps[n].m[j] # 0
                                           /\ cells[maps[n].m[j]].val.kind = "node"}}

\* C19: when Prune deletes from a Cache over an LRUMap an entry whose value
\* is a nested cache, no element of a node of the removed subtree is left in
\* the shared list, and the indexes of those nodes are empty.
C19_DeleteFreesSubtree ==
    [][ \A t \in Threads :
          LET n == th[t].node
              c == maps[n].m[Head(th[t].rest)]
          IN  ( /\ th[t].pc = "del" /\ th'[t].pc = "ret"
                /\ maps[n].kind = "lru"
                /\ c # 0
                /\ cells[c].val.kind = "node" )
              => LET sub == SubtreeNodes(cells[c].val.v)
                 IN  /\ \A i \in 1..Len(list') : list'[i].M \notin sub
                     /\ \A d \in sub : maps'[d].m = EmptyIndex ]_vars

\* C17: every value that a LoadOrCall has returned for a key is the result
\* of an invocation of getValue for the key that has returned.
C17_OnlyComputedValues ==
    \A p \in KeyPaths :
        \A v \in rets[p] :
            \E i \in 1..Len(calls[p]) :
                /\ v = Leaf(FuncResult(calls[p][i].f))
                /\ cells[calls[p][i].cell].st = "done"
                /\ calls[p][i].cell \notin failed

\* C18: a cell whose getValue has panicked stays resolved to the zero value,
\* no step invokes a getValue on it, and a getValue is invoked for its key
\* again only on another cell, after a Delete of the key.
C18_FailedCellNeverRetried ==
    /\ [](/\ \A c \in failed : cells[c] = [st |-> "done", val |-> Nil]
          /\ \A p \in KeyPaths :
                \A i, j \in 1..Len(calls[p]) :
                    (i # j /\ calls[p][i].cell \in failed)
                    => /\ calls[p][j].cell # calls[p][i].cell
                       /\ p \in deleted)
    /\ [][ \A t \in Threads :
              (th'[t].pc = "run" /\ th[t].pc # "run")
              => th'[t].cell \notin failed ]_vars

\* C18 witness: a LoadOrCall has come back from a cell whose getValue had
\* panicked, without a second invocation for the key.
C18_Witness ==
    \E p \in KeyPaths :
        /\ Len(calls[p]) = 1
        /\ calls[p][1].cell \in failed
        /\ Nil \in rets[p]

\* The goroutine is inside LoadOrCall and has not got its result yet.
InFlight(t) == th[t].op = "load" /\ th[t].pc \notin {"idle", "ret", "panic"}

\* C14: the shared counter never exceeds maxSize by more than the number of
\* LoadOrCall calls in progress: it is at most maxSize when none is.
C14_CounterBounded ==
    size <= RRMaxSize + Cardinality({t \in Threads : InFlight(t)})

\* C15: two LoadOrCall calls on one RRCache that are in progress at the same
\* time for the same key hold the same cell, so that getValue is called
\* once for them and both return its result.
C15_SingleFlightWhileEvicting ==
    \A t, u \in Threads :
        (InFlight(t) /\ InFlight(u) /\ th[t].path = th[u].path
           /\ th[t].cell # 0 /\ th[u].cell # 0)
        => th[t].cell = th[u].cell

\* C16: when no call is in progress on a MultiLevelMap of RRCaches, the
\* shared counter is the number of full paths that have an entry.
C16_CounterCountsLeaves ==
    (\A t \in Threads : th[t].pc = "idle")
    => size = Cardinality({p \in LeafPaths : HasEntry(p)})

\* The entries held by the cache nodes of the set S.
EntriesOf(S) == {e \in S \X Keys : maps[e[1]].m[e[2]] # 0}

\* C21: when RRCache.Delete removes an entry whose value is a nested cache,
\* the nodes of the removed subtree are left empty and the shared counter
\* has gone down by one for every entry of the subtree and by one for the
\* entry itself.
C21_DeleteClearsNestedCache ==
    [][ \A t \in Threads :
          LET n == th[t].node
              c == maps[n].m[Head(th[t].rest)]
          IN  ( /\ th[t].pc = "del" /\ th'[t].pc = "ret"
                /\ maps[n].kind = "rr"
                /\ c # 0
                /\ cells[c].val.kind = "node" )
              => LET sub == SubtreeNodes(cells[c].val.v)
                 IN  /\ \A d \in sub : maps'[d].m = EmptyIndex
                     /\ size' = size - 1 - Cardinality(EntriesOf(sub)) ]_vars

\* C22: when the function of a sweep is called for an entry whose cell holds
\* a nested cache, the eviction pass of that cache is run by the call.
C22_SweepRecursesIntoChildren ==
    [][ \A t \in Threads :
          ( /\ th[t].pc = "sweep"
            /\ th'[t].todo # th[t].todo
            /\ th'[t].pc \in {"sweep", "rrdel"} )
          => \A k \in th[t].todo \ th'[t].todo :
                NestedCache(th[t].node, k) \subseteq th'[t].passes ]_vars

\* C24: with no Delete issued by callers, no step takes the shared counter
\* from targetNum or above to below targetNum.
C24_TargetIsFloor ==
    [][ size >= RRTarget => size' >= RRTarget ]_vars

RemovedEntries == {e \in EntriesOf(RRCaches) : maps'[e[1]].m[e[2]] = 0}

\* C26: a Delete that finds no entry for its key changes neither the counter
\* nor a map.  The counter is only decremented, by one, by a Delete that
\* has found the entry of its key and holds the lock of its cache until it
\* removes that entry; an entry is only removed by such a Delete, and no
\* two of them are at work on one cache: one decrement for each removal.
C26_OneDecrementPerEntry ==
    /\ [](\A t, u \in Threads :
            /\ th[t].pc = "rrstore" => maps[th[t].node].m[th[t].victim] # 0
            /\ (th[t].pc = "rrstore" /\ th[u].pc = "rrstore"
                  /\ th[t].node = th[u].node) => t = u)
    /\ [][ /\ \A t \in Threads :
                ( /\ th[t].pc = "rrdel" /\ th'[t].pc # "rrdel"
                  /\ maps[th[t].node].m[th[t].victim] = 0 )
                => size' = size /\ maps' = maps
           /\ size' < size
                => /\ size' = size - 1
                   /\ RemovedEntries = {}
                   /\ \E t \in Threads :
                         th[t].pc = "rrdel" /\ th'[t].pc = "rrstore"
           /\ RemovedEntries # {}
                => /\ size' = size
                   /\ \E t \in Threads :
                         /\ th[t].pc = "rrstore" /\ th'[t].pc # "rrstore"
                         /\ RemovedEntries = {<<th[t].node, th[t].victim>>}
        ]_vars

\* A Delete issued for a key that had an entry has found the key gone: an
\* eviction or another Delete removed the entry first.
C26_Witness ==
    \E t \in Threads :
        /\ th[t].op = "delete" /\ th[t].pc = "ret"
        /\ th[t].loaded /\ th[t].noEntry

\* C27: the shared counter is never negative.
C27_CounterNeverNegative == size >= 0

\* C28: whenever the function of a sweep is about to be called for a key,
\* the counter it reads and hands to intn is at least 1.
C28_IntnBoundPositive ==
    \A t \in Threads :
        (th[t].pc = "sweep" /\ th[t].todo \cap RRKeys(th[t].node) # {})
        => size >= 1

\* A client value is held at path p: a descent from the root finds it, or it
\* is the value the caller's last LoadOrCall for p returned and no Prune of
\* p or of a prefix of p has returned since.
StoredAt(p) ==
    \/ Lookup(p).kind = "leaf"
    \/ lastVal[p].kind = "leaf" /\ p \notin stale

====
